---- MODULE Spec2Model ----
(***************************************************************************)
(* Model of the broadcast queue of src/frontend/src/App.tsx (class Queue,  *)
(* lines 63-191, and the startup code, lines 193-223).                     *)
(*                                                                         *)
(* The Queue object is the record q of its fields.  Every method is an     *)
(* operator from a Queue state to the Queue state the method leaves, so    *)
(* that a callback which calls play(true) is the composition the code      *)
(* runs.  The objects the Queue creates and keeps alive through listeners  *)
(* (the fs read streams of createReadStream and the Throttle transforms)   *)
(* are the two tables streams and throttles.                               *)
(*                                                                         *)
(* Library behaviour the code relies on (Node streams, package throttle):  *)
(*  - src.pipe(dest) returns dest, writes every chunk src emits to dest,   *)
(*    calls dest.end() when src ends, and resumes src; it registers no     *)
(*    'error' listener on src.                                             *)
(*  - Throttle is built with highWaterMark 0: write() returns false, so    *)
(*    the source waits for 'drain' before it emits the next chunk.         *)
(*  - dest.end() lets dest emit what it still buffers, then 'finish'       *)
(*    (pipe then unpipes dest) and 'end'; no 'drain' is emitted once a     *)
(*    stream is ending.                                                    *)
(*  - write() on a stream whose end() was called emits 'error' on it.      *)
(*  - src.pipe(dest) on a src that has already emitted 'end' calls         *)
(*    dest.end() on the next tick.                                         *)
(*  - an 'error' event without a listener, and an exception thrown out of  *)
(*    a listener, are uncaught exceptions: the process exits.              *)
(***************************************************************************)
EXTENDS Integers, Sequences, FiniteSets, TLC

\* ---- bounds of the model -------------------------------------------------
MaxTracks == 3
TrackLen == 2
MaxClients == 2
MaxStreams == 3
MaxThrottles == 3
MaxLive == 2
MaxEmit == 3
MaxFiles == 3

ClientIds == 1..MaxClients
StreamIds == 1..MaxStreams
ThrottleIds == 1..MaxThrottles
Null == 0

VARIABLES
  clients,       \* Queue.clients: the ids of the Map, in insertion order
  tracks,        \* Queue.tracks: the playlist, a sequence of tracks
  currentTrack,  \* Queue.currentTrack: a track, or Null
  index,         \* Queue.index
  playing,       \* Queue.playing
  stream,        \* Queue.stream: a stream id, or Null
  throttle,      \* Queue.throttle: a throttle id, or Null
  streams,       \* the read streams created by createReadStream
  throttles,     \* the Throttle objects created by start()
  sinks,         \* what was written to the PassThrough of each client id
  joined,        \* number of broadcasts that preceded each addClient()
  seq,           \* number of broadcast() calls so far (counted up to MaxEmit)
  crashed,       \* the process ended on an uncaught exception
  loaded,        \* loadTracks() has resolved
  pausedAt,      \* history: the cursor when pause() last took effect
  lastOp,        \* history: the operation or event of the last step
  dirList,       \* loadTracks: the file names readdir() resolved to
  probes,        \* loadTracks: the outcome of ffprobe per file path
  settled,       \* history: the file paths in the order their probes ended
  loadedTracks,  \* loadTracks: this.tracks with file paths and bitrates
  loadStatus     \* loadTracks: "idle", "probing", "resolved" or "rejected"

\* the state of a call of loadTracks()
loading == <<dirList, probes, settled, loadedTracks, loadStatus>>

\* the Queue, its objects and the history of its operations
queue == <<clients, tracks, currentTrack, index, playing, stream, throttle,
           streams, throttles, sinks, joined, seq, crashed, loaded, pausedAt,
           lastOp>>

vars == <<queue, loading>>

\* ---- objects --------------------------------------------------------------
\* A read stream: the number of chunks of its file it has emitted (every
\* file is TrackLen chunks, numbered from 1), whether 'end' was emitted,
\* whether it is flowing, the chunks of it that were broadcast (history) and
\* whether it was piped a second time (history).
FreeStream ==
  [open |-> FALSE, pos |-> 0, ended |-> FALSE,
   flowing |-> FALSE, out |-> <<>>, resumed |-> FALSE]

\* A Throttle: the stream piped into it, whether the pipe is still in place,
\* the chunk it holds (0: none), whether end() was called on it and whether
\* the 'end' listener of start() is still attached.  The 'data' and 'error'
\* listeners of start() are never removed.
FreeThrottle ==
  [used |-> FALSE, src |-> Null, piped |-> FALSE, buf |-> 0,
   ending |-> FALSE, endL |-> FALSE]

NoOp == [op |-> "init", id |-> 0, cli |-> <<>>, cur |-> Null, pl |-> FALSE]

NotPaused == [set |-> FALSE, cur |-> Null, idx |-> 0]

\* The Queue state as one record.
Q ==
  [clients |-> clients, tracks |-> tracks, currentTrack |-> currentTrack,
   index |-> index, playing |-> playing, stream |-> stream,
   throttle |-> throttle, streams |-> streams, throttles |-> throttles,
   sinks |-> sinks, joined |-> joined, seq |-> seq, crashed |-> crashed]

Range(s) == {s[i] : i \in 1..Len(s)}

Min(S) == CHOOSE x \in S : \A y \in S : x <= y

\* The element of a one-element set.  The methods below are composed with
\* it: The({g(x) : x \in {f(q)}}) is g(f(q)), with f(q) evaluated once.
The(S) == CHOOSE r \in S : TRUE

\* the throttles a stream is piped into
Pipes(q, s) == {t \in ThrottleIds : q.throttles[t].used /\ q.throttles[t].piped
                                    /\ q.throttles[t].src = s}

\* a stream no listener and no field of the Queue can reach any more
Unreachable(q, s) ==
  /\ s # q.stream
  /\ \A t \in ThrottleIds : ~(q.throttles[t].used /\ q.throttles[t].src = s)

\* garbage collection: unreachable streams leave the table
Collect(q) ==
  [q EXCEPT !.streams =
     [s \in StreamIds |-> IF Unreachable(q, s) THEN FreeStream ELSE q.streams[s]]]

\* ---- Queue methods (App.tsx 83-190) ---------------------------------------
\* position in the Map's iteration order of the first client of F, the
\* clients whose write() raises; Len + 1 when there is none
FirstFailure(cs, F) ==
  IF \E i \in 1..Len(cs) : cs[i] \in F
  THEN Min({i \in 1..Len(cs) : cs[i] \in F})
  ELSE Len(cs) + 1

\* broadcast() as it would be if the loop stopped after the first sink
broadcast_firstOnly(q, F) ==
  LET cs == q.clients
      rec == q.seq < MaxEmit
      n == q.seq + 1
  IN [q EXCEPT
        !.sinks = [c \in ClientIds |->
                     IF rec /\ cs # <<>> /\ c = cs[1] /\ c \notin F
                     THEN Append(q.sinks[c], n)
                     ELSE q.sinks[c]],
        !.seq = IF rec THEN n ELSE q.seq,
        !.crashed = (cs # <<>> /\ cs[1] \in F)]

\* broadcast(chunk), lines 83-87: forEach calls client.write(chunk) in
\* insertion order.  There is no try/catch: a write that raises ends the
\* forEach and the exception leaves broadcast() and the 'data' listener.
\* The chunk is recorded in the sinks by its broadcast number.
broadcast(q, F) ==
  LET cs == q.clients
      stop == FirstFailure(cs, F)
      rec == q.seq < MaxEmit
      n == q.seq + 1
      written == {cs[i] : i \in 1..(stop - 1)}
  IN [q EXCEPT
        !.sinks = [c \in ClientIds |->
                     IF rec /\ c \in written THEN Append(q.sinks[c], n)
                     ELSE q.sinks[c]],
        !.seq = IF rec THEN n ELSE q.seq,
        !.crashed = (stop <= Len(cs))]

\* addClient() as it would be if the new sink were handed the last chunk
addClient_replay(q, id) ==
  [q EXCEPT !.clients = Append(q.clients, id),
            !.sinks = [q.sinks EXCEPT ![id] = IF q.seq > 0 THEN <<q.seq>> ELSE <<>>],
            !.joined = [q.joined EXCEPT ![id] = q.seq]]

\* addClient(), lines 90-96: a fresh id (uuidv4) and a new, empty PassThrough
addClient(q, id) ==
  [q EXCEPT !.clients = Append(q.clients, id),
            !.sinks = [q.sinks EXCEPT ![id] = <<>>],
            !.joined = [q.joined EXCEPT ![id] = q.seq]]

\* removeClient(id) as it would be if an unknown id raised
removeClient_strict(q, id) ==
  IF id \in Range(q.clients)
  THEN [q EXCEPT !.clients = SelectSeq(q.clients, LAMBDA c : c # id)]
  ELSE [q EXCEPT !.crashed = TRUE]

\* removeClient(id) as it would be if the entry were left in the Map
removeClient_keep(q, id) == q

\* removeClient(id) as it would be if playback stopped with the last client
removeClient_stopWhenEmpty(q, id) ==
  LET rest == SelectSeq(q.clients, LAMBDA c : c # id)
  IN [q EXCEPT !.clients = rest, !.playing = q.playing /\ rest # <<>>]

\* removeClient(id), lines 99-102: Map.delete
removeClient(q, id) ==
  [q EXCEPT !.clients = SelectSeq(q.clients, LAMBDA c : c # id)]

\* getNextTrack() as it would be without the reset of lines 126-128
getNextTrack_noReset(q) ==
  LET i == q.index
  IN IF i + 1 \in 1..Len(q.tracks)
     THEN [q EXCEPT !.index = i + 1, !.currentTrack = q.tracks[i + 1]]
     ELSE [q EXCEPT !.index = i + 1, !.currentTrack = Null, !.crashed = TRUE]

\* getNextTrack(), lines 125-133.  tracks[i] of the code is tracks[i + 1]
\* here.  On an empty playlist tracks[0] is undefined and track.filepath
\* raises a TypeError.
getNextTrack(q) ==
  LET i == IF q.index >= Len(q.tracks) - 1 THEN 0 ELSE q.index
  IN IF i + 1 \in 1..Len(q.tracks)
     THEN [q EXCEPT !.index = i + 1, !.currentTrack = q.tracks[i + 1]]
     ELSE [q EXCEPT !.index = i + 1, !.currentTrack = Null, !.crashed = TRUE]

\* the slot of a new read stream: a free one, or one nothing can reach once
\* this.stream is assigned
NewStreamId(q) ==
  Min({s \in StreamIds :
         \/ ~q.streams[s].open
         \/ \A t \in ThrottleIds : ~(q.throttles[t].used /\ q.throttles[t].src = s)})

\* loadTrackStream(), lines 136-141: this.stream = createReadStream(...).
\* The stream that this.stream held is neither closed nor unpiped.
loadTrackStream(q) ==
  IF q.currentTrack = Null THEN q
  ELSE LET s == NewStreamId(q)
       IN [q EXCEPT !.stream = s,
                    !.streams = [q.streams EXCEPT ![s] =
                       [FreeStream EXCEPT !.open = TRUE]]]

NewThrottleId(q) == Min({t \in ThrottleIds : ~q.throttles[t].used})

\* started(), lines 169-171
started(q) == q.stream # Null /\ q.throttle # Null /\ q.currentTrack # Null

\* pipe's cleanup when dest finishes or fails: src.unpipe(dest); a stream
\* left without destination is paused
Unpipe(q, t) ==
  LET s == q.throttles[t].src
      q1 == [q EXCEPT !.throttles = [q.throttles EXCEPT ![t].piped = FALSE]]
  IN IF q.throttles[t].piped /\ Pipes(q1, s) = {}
     THEN [q1 EXCEPT !.streams = [q1.streams EXCEPT ![s].flowing = FALSE]]
     ELSE q1

\* the first part of start(), lines 144-157, up to the pipe: a new Throttle,
\* this.stream piped into it (which resumes a stream that has not ended),
\* and the three listeners attached to the Throttle
startPipe(q) ==
  IF q.currentTrack = Null \/ q.stream = Null THEN q
  ELSE LET t == NewThrottleId(q)
           s == q.stream
           again == Pipes(q, s) # {} \/ q.streams[s].pos > 0
       IN [q EXCEPT
             !.playing = TRUE,
             !.throttle = t,
             !.throttles = [q.throttles EXCEPT ![t] =
                [used |-> TRUE, src |-> s, piped |-> TRUE, buf |-> 0,
                 ending |-> FALSE, endL |-> TRUE]],
             !.streams = [q.streams EXCEPT
                            ![s].flowing = ~q.streams[s].ended,
                            ![s].resumed = @ \/ again]]

\* play(true), lines 181-186, as the listeners of start() call it.  The
\* stream loadTrackStream() has just opened has not ended, so start() is its
\* first part.  q1 is the Queue after getNextTrack().
playNew(q) ==
  The({IF q1.crashed THEN q1
       ELSE The({startPipe(q2) : q2 \in {loadTrackStream(q1)}})
       : q1 \in {getNextTrack(q)}})

\* 'finish' and 'end' of a Throttle whose end() was called and which holds
\* nothing: the pipe is removed and the Throttle is gone (q1); the 'end'
\* listener of line 152, when it is still attached, runs play(true)
Finish(q, t) ==
  The({IF q.throttles[t].endL THEN playNew(q1) ELSE q1
       : q1 \in {[Unpipe(q, t) EXCEPT !.throttles[t] = FreeThrottle]}})

\* throttle.end(): called by pause() (line 165) and by pipe when the source
\* ends.  What the Throttle holds is still emitted before it finishes.
EndThrottle(q, t) ==
  IF ~q.throttles[t].used \/ q.throttles[t].ending THEN q
  ELSE The({IF q1.throttles[t].buf = 0 THEN Finish(q1, t) ELSE q1
            : q1 \in {[q EXCEPT !.throttles[t].ending = TRUE]}})

\* start(), lines 144-157.  When this.stream has already emitted 'end', pipe
\* ends the new Throttle on the next tick, after start() has returned: that
\* is the event pipeEnded below.
start(q) == startPipe(q)

\* play() as it would be if a paused track were opened again
play_reload(q, useNewTrack) ==
  IF useNewTrack \/ q.currentTrack = Null
  THEN The({IF q1.crashed THEN q1
            ELSE The({start(q2) : q2 \in {loadTrackStream(q1)}})
            : q1 \in {getNextTrack(q)}})
  ELSE IF q.playing THEN q
  ELSE The({start(q1) : q1 \in {loadTrackStream(q)}})

\* play() as it would be if it called start() where it calls resume()
play_alwaysStart(q, useNewTrack) ==
  IF useNewTrack \/ q.currentTrack = Null
  THEN The({IF q1.crashed THEN q1
            ELSE The({start(q2) : q2 \in {loadTrackStream(q1)}})
            : q1 \in {getNextTrack(q)}})
  ELSE start(q)

\* resume() as it would be without the test of this.playing
resume_unguarded(q) ==
  IF ~started(q) THEN q ELSE start(q)

\* resume(), lines 174-178
resume(q) ==
  IF ~started(q) \/ q.playing THEN q ELSE start(q)

\* play(useNewTrack), lines 181-190.  q1 is the Queue after getNextTrack(),
\* q2 the Queue after loadTrackStream().
play(q, useNewTrack) ==
  IF useNewTrack \/ q.currentTrack = Null
  THEN The({IF q1.crashed THEN q1
            ELSE The({start(q2) : q2 \in {loadTrackStream(q1)}})
            : q1 \in {getNextTrack(q)}})
  ELSE resume(q)

\* pause(), lines 160-166.  Only the 'end' listeners are removed: the 'data'
\* and 'error' listeners stay, and the read stream is left piped.
pause(q) ==
  IF ~started(q) \/ ~q.playing THEN q
  ELSE The({EndThrottle(q1, q.throttle)
            : q1 \in {[q EXCEPT !.playing = FALSE,
                                !.throttles[q.throttle].endL = FALSE]}})

\* ---- stream events the listeners of start() react to ----------------------
\* A chunk written to a Throttle after its end(): 'error' on the Throttle.
\* pipe's own listener unpipes it, the listener of lines 153-156 logs and
\* runs play(true).  Whether the Throttle still emits the chunk it holds
\* depends on the stream library the throttle package resolves to: destroyed
\* tells that the error destroyed it.
WriteAfterEnd(q, t, destroyed) ==
  The({playNew(q1)
       : q1 \in {IF destroyed
                 THEN [Unpipe(q, t) EXCEPT !.throttles[t] = FreeThrottle]
                 ELSE Unpipe(q, t)}})

\* The destinations of stream s on which end() was already called, and the
\* others.  resume() pipes a stream again only when pause() has ended the
\* Throttle before, so at most one destination of a stream is not ending
\* and, since the first chunk to an ending one unpipes it, at most one is.
Stale(q, s) == {t \in Pipes(q, s) : q.throttles[t].ending}
Live(q, s) == {t \in Pipes(q, s) : ~q.throttles[t].ending}

\* the write of chunk k of stream s to its destinations that are not ending
WriteLive(q, s, k, live) ==
  IF live = {} \/ q.crashed THEN q
  ELSE [q EXCEPT
          !.throttles = [t \in ThrottleIds |->
             IF t \in live THEN [q.throttles[t] EXCEPT !.buf = k]
             ELSE q.throttles[t]],
          !.streams[s].flowing = FALSE]

\* 'data' of read stream s: the next chunk of the file is written to every
\* Throttle the stream is piped into (lines 149-150): first to the one
\* already ended, if any (q1), then to the other
streamData(q, s, destroyed) ==
  LET k == q.streams[s].pos + 1
      read == [q EXCEPT !.streams[s].pos = k]
  IN The({WriteLive(q1, s, k, Live(q, s))
          : q1 \in {IF Stale(q, s) = {} THEN read
                    ELSE WriteAfterEnd(read, CHOOSE t \in Stale(q, s) : TRUE,
                                       destroyed)}})

\* 'end' of read stream s: pipe calls end() on every destination
streamEnd(q, s) ==
  The({IF Live(q, s) = {} THEN q1
       ELSE EndThrottle(q1, CHOOSE t \in Live(q, s) : TRUE)
       : q1 \in {[q EXCEPT !.streams[s].ended = TRUE,
                           !.streams[s].flowing = FALSE]}})

\* Throttle t has emitted chunk k of stream s: it drains (the source flows
\* again) or, when ending, finishes
Emitted(q, t, s, k) ==
  The({IF q1.throttles[t].ending THEN Finish(q1, t)
       ELSE IF q1.throttles[t].piped /\ ~q1.streams[s].ended
       THEN [q1 EXCEPT !.streams[s].flowing = TRUE]
       ELSE q1
       : q1 \in {[q EXCEPT !.streams[s].out = Append(@, k),
                           !.throttles[t].buf = 0]}})

\* 'data' of Throttle t: the listener of line 151 broadcasts the chunk it
\* holds (q1 is the Queue after broadcast())
throttleData(q, t, F) ==
  The({IF q1.crashed THEN q1
       ELSE Emitted(q1, t, q.throttles[t].src, q.throttles[t].buf)
       : q1 \in {broadcast(q, F)}})

\* The next tick after this.stream.pipe(this.throttle) on a stream that had
\* ended: pipe calls end() on Throttle t
pipeEnded(q, t) == EndThrottle(q, t)

\* 'error' of read stream s: start() attaches its 'error' listener to the
\* value of pipe(), the Throttle, so the read stream has none
streamError(q, s) == [q EXCEPT !.crashed = TRUE]

\* ---- the state machine ----------------------------------------------------
\* the state after the constructor, lines 72-80
Init ==
  /\ clients = <<>>
  /\ tracks = <<>>
  /\ currentTrack = Null
  /\ index = 0
  /\ playing = FALSE
  /\ stream = Null
  /\ throttle = Null
  /\ streams = [s \in StreamIds |-> FreeStream]
  /\ throttles = [t \in ThrottleIds |-> FreeThrottle]
  /\ sinks = [c \in ClientIds |-> <<>>]
  /\ joined = [c \in ClientIds |-> 0]
  /\ seq = 0
  /\ crashed = FALSE
  /\ loaded = FALSE
  /\ pausedAt = NotPaused
  /\ lastOp = NoOp
  /\ dirList = <<>>
  /\ probes = <<>>
  /\ settled = <<>>
  /\ loadedTracks = <<>>
  /\ loadStatus = "idle"

\* the Queue fields of the next state are those of q
Commit(q) ==
  \E c \in {The({Collect(x) : x \in {q}})} :
     /\ clients' = c.clients
     /\ tracks' = c.tracks
     /\ currentTrack' = c.currentTrack
     /\ index' = c.index
     /\ playing' = c.playing
     /\ stream' = c.stream
     /\ throttle' = c.throttle
     /\ streams' = c.streams
     /\ throttles' = c.throttles
     /\ sinks' = c.sinks
     /\ joined' = c.joined
     /\ seq' = c.seq
     /\ crashed' = c.crashed

\* the step taken, with the client set, the current track and the playing
\* flag it started from
Op(name, id) ==
  [op |-> name, id |-> id, cli |-> clients, cur |-> currentTrack, pl |-> playing]

FreeThrottles(q) == {t \in ThrottleIds : ~q.throttles[t].used}
FreeStreams(q) == {s \in StreamIds : ~Collect(q).streams[s].open}

\* Throttles whose end() was called while they held a chunk, and which
\* are still piped from a flowing stream: the next chunk of that stream
\* raises 'error' on them (one more session), and the stream stays reachable
\* from them after its end.
StalePiped(q) ==
  {t \in ThrottleIds : /\ q.throttles[t].used /\ q.throttles[t].ending
                       /\ q.throttles[t].piped
                       /\ q.streams[q.throttles[t].src].flowing}

\* ... and those already unpiped, from which a stream that has not ended
\* stays reachable
StaleUnpiped(q) ==
  {t \in ThrottleIds : /\ q.throttles[t].used /\ q.throttles[t].ending
                       /\ ~q.throttles[t].piped
                       /\ ~q.streams[q.throttles[t].src].ended}

\* The tables are finite: a call that creates a session is taken only when
\* the sessions that are alive leave room for the ones their callbacks
\* create later.
Room(q) ==
  /\ Cardinality(FreeStreams(q)) >=
       2 * Cardinality(StalePiped(q)) + Cardinality(StaleUnpiped(q))
  /\ Cardinality(FreeThrottles(q)) >= Cardinality(StalePiped(q))
  /\ Cardinality(ThrottleIds \ FreeThrottles(q)) <= MaxLive

\* a slot is left for the session the call itself may create
CanCreate(q) == FreeThrottles(q) # {} /\ FreeStreams(q) # {}

Running == loaded /\ ~crashed

\* loadTracks(dir), lines 105-115: a playlist of n tracks, in readdir order
loadTracks(q, n) == [q EXCEPT !.tracks = [i \in 1..n |-> i]]

\* lines 195-197: await queue.loadTracks("tracks"); queue.play()
Main(n) ==
  /\ ~loaded /\ ~crashed
  /\ loaded' = TRUE
  /\ Commit(The({play(q, FALSE) : q \in {loadTracks(Q, n)}}))
  /\ lastOp' = Op("main", n)
  /\ UNCHANGED <<pausedAt, loading>>

\* a call of loadTracks alone
LoadTracks(n) ==
  /\ ~loaded /\ ~crashed
  /\ loaded' = TRUE
  /\ Commit(loadTracks(Q, n))
  /\ lastOp' = Op("loadTracks", n)
  /\ UNCHANGED <<pausedAt, loading>>

\* a call of play(useNewTrack)
Play(useNewTrack) ==
  /\ Running
  /\ CanCreate(Q)
  /\ \E q \in {play(Q, useNewTrack)} :
        /\ q.crashed \/ Room(q)
        /\ Commit(q)
  /\ lastOp' = Op(IF useNewTrack THEN "skip" ELSE "play", 0)
  /\ pausedAt' = NotPaused
  /\ UNCHANGED <<loaded, loading>>

\* a call of pause()
Pause ==
  /\ Running
  /\ Commit(pause(Q))
  /\ lastOp' = Op("pause", 0)
  /\ pausedAt' = IF started(Q) /\ playing
                 THEN [set |-> TRUE, cur |-> currentTrack, idx |-> index]
                 ELSE pausedAt
  /\ UNCHANGED <<loaded, loading>>

\* a call of resume()
Resume ==
  /\ Running
  /\ CanCreate(Q)
  /\ \E q \in {resume(Q)} :
        /\ Room(q)
        /\ Commit(q)
  /\ lastOp' = Op("resume", 0)
  /\ pausedAt' = NotPaused
  /\ UNCHANGED <<loaded, loading>>

\* GET /stream, lines 203-204: addClient() with a fresh id
AddClient(id) ==
  /\ Running
  /\ id \notin Range(clients)
  /\ Commit(addClient(Q, id))
  /\ lastOp' = Op("addClient", id)
  /\ UNCHANGED <<loaded, pausedAt, loading>>

\* removeClient(id), lines 215-217, for any id
RemoveClient(id) ==
  /\ Running
  /\ Commit(removeClient(Q, id))
  /\ lastOp' = Op("removeClient", id)
  /\ UNCHANGED <<loaded, pausedAt, loading>>

\* the read stream s emits its next chunk
StreamData(s, destroyed) ==
  /\ Running
  /\ streams[s].open /\ streams[s].flowing
  /\ streams[s].pos < TrackLen
  /\ destroyed => Stale(Q, s) # {}
  /\ Commit(streamData(Q, s, destroyed))
  /\ lastOp' = Op(IF Stale(Q, s) # {} THEN "staleError" ELSE "read", 0)
  /\ UNCHANGED <<loaded, pausedAt, loading>>

\* the read stream s reaches the end of its file
StreamEnd(s) ==
  /\ Running
  /\ streams[s].open /\ streams[s].flowing /\ ~streams[s].ended
  /\ streams[s].pos = TrackLen
  /\ Commit(streamEnd(Q, s))
  /\ lastOp' = Op("end", 0)
  /\ UNCHANGED <<loaded, pausedAt, loading>>

\* reading the file of stream s fails
StreamError(s) ==
  /\ Running
  /\ streams[s].open /\ ~streams[s].ended /\ Pipes(Q, s) # {}
  /\ Commit(streamError(Q, s))
  /\ lastOp' = Op("error", 0)
  /\ UNCHANGED <<loaded, pausedAt, loading>>

\* the Throttle t, piped from a stream that had ended, is ended by the pipe
PipeEnded(t) ==
  /\ Running
  /\ throttles[t].used /\ throttles[t].piped /\ ~throttles[t].ending
  /\ streams[throttles[t].src].ended
  /\ Commit(pipeEnded(Q, t))
  /\ lastOp' = Op("pipeEnded", t)
  /\ UNCHANGED <<loaded, pausedAt, loading>>

\* the sets of sinks whose write raises in one broadcast: none, or one
Failures == {{}} \cup {{c} : c \in Range(clients)}

\* the Throttle t emits the chunk it holds; F: the sinks whose write raises
ThrottleData(t, F) ==
  /\ Running
  /\ throttles[t].used /\ throttles[t].buf # 0
  /\ Commit(throttleData(Q, t, F))
  /\ lastOp' = IF F = {} THEN Op("data", 0)
               ELSE Op("writeFailed", CHOOSE c \in F : TRUE)
  /\ UNCHANGED <<loaded, pausedAt, loading>>

\* The program as lines 193-223 run it: startup, listeners that come and go,
\* and the events of the streams.
Next ==
  \/ \E n \in 0..MaxTracks : Main(n)
  \/ \E id \in ClientIds : AddClient(id)
  \/ \E id \in ClientIds : RemoveClient(id)
  \/ \E s \in StreamIds : \E d \in BOOLEAN : StreamData(s, d)
  \/ \E s \in StreamIds : StreamEnd(s)
  \/ \E s \in StreamIds : StreamError(s)
  \/ \E t \in ThrottleIds : \E F \in Failures : ThrottleData(t, F)

Spec == Init /\ [][Next]_vars

\* The events of the pacer that the event loop runs whenever they are ready.
Pacer ==
  \/ \E s \in StreamIds : \E d \in BOOLEAN : StreamData(s, d)
  \/ \E s \in StreamIds : StreamEnd(s)
  \/ \E t \in ThrottleIds : ThrottleData(t, {})

FairSpec == Spec /\ WF_vars(Pacer)

\* The Queue driven through its control methods, with no listener connected.
\* (Only resume() calls start() on a stream that may have ended: as main
\* runs the program, start() always follows loadTrackStream().)
ControlNext ==
  \/ \E n \in 0..MaxTracks : LoadTracks(n)
  \/ \E b \in BOOLEAN : Play(b)
  \/ Pause
  \/ Resume
  \/ \E s \in StreamIds : \E d \in BOOLEAN : StreamData(s, d)
  \/ \E s \in StreamIds : StreamEnd(s)
  \/ \E s \in StreamIds : StreamError(s)
  \/ \E t \in ThrottleIds : ThrottleData(t, {})
  \/ \E t \in ThrottleIds : PipeEnded(t)

ControlSpec == Init /\ [][ControlNext]_vars

\* ---- loadTracks(dir) in detail --------------------------------------------
\* In the state machine above a track is its position in the playlist.  Here
\* loadTracks() is taken apart: readdir(), the filter on the extension, one
\* ffprobe per file path, all started at once and ending in any order, and
\* Promise.all.

\* the directory main passes, line 196
Dir == "tracks"

\* Names a directory can hold: a name is its base and its extension.
FileNames ==
  {[base |-> "a", ext |-> ".mp3"], [base |-> "b", ext |-> ".mp3"],
   [base |-> "c", ext |-> ".txt"], [base |-> "d", ext |-> ".MP3"]}

\* what readdir() can resolve to: up to MaxFiles names, none twice
DirLists ==
  UNION {{f \in [1..n -> FileNames] : \A i, j \in 1..n : f[i] = f[j] => i = j}
         : n \in 0..MaxFiles}

\* path.extname and path.join
extname(f) == f.ext
join(dir, f) == <<dir, f.base, f.ext>>

\* What a probe ends with: the promise of ffprobe() is rejected ("raise"),
\* its data holds no format.bit_rate ("nodata"), or bit_rate is a string of
\* digits.
ProbeData == {"raise", "nodata", "64000", "320000"}

\* parseInt on the bit_rate strings above
parseInt(str) ==
  CASE str = "64000" -> 64000
    [] str = "320000" -> 320000

\* line 121: the bitrate when the probe gives none
DefaultBitrate == 128000

\* lines 106-108: the file paths of the names with extension ".mp3"
filepaths(files) ==
  LET filenames == SelectSeq(files, LAMBDA f : extname(f) = ".mp3")
  IN [i \in 1..Len(filenames) |-> join(Dir, filenames[i])]

\* getTrackBitrate(filepath), lines 118-122, for the data ffprobe resolved
\* to.  There is no try/catch around the await of line 119: when ffprobe
\* rejects, so does getTrackBitrate.
getTrackBitrate(data) ==
  IF data = "nodata" THEN DefaultBitrate ELSE parseInt(data)

\* Promise.all as it would be if it listed the results as they arrive
promiseAll_arrivalOrder(fps, data, order) ==
  [k \in 1..Len(order) |->
     [filepath |-> fps[order[k]], bitrate |-> getTrackBitrate(data[order[k]])]]

\* lines 109-113: Promise.all over the promises of the file paths resolves
\* to the tracks in the order of the promises, whatever the order in which
\* they were fulfilled
promiseAll(fps, data, order) ==
  [i \in 1..Len(fps) |->
     [filepath |-> fps[i], bitrate |-> getTrackBitrate(data[i])]]

\* line 106: readdir() resolves, and lines 107-112 start one probe per path
Readdir(files) ==
  /\ loadStatus = "idle"
  /\ dirList' = files
  /\ probes' = [i \in 1..Len(filepaths(files)) |-> "pending"]
  /\ loadStatus' = "probing"
  /\ UNCHANGED <<queue, settled, loadedTracks>>

\* The probe of file path i ends.  A rejected probe rejects Promise.all, and
\* with it loadTracks(), at once; the other probes still run to their end.
ProbeSettles(i, data) ==
  /\ loadStatus \in {"probing", "rejected"}
  /\ i \in 1..Len(probes) /\ probes[i] = "pending"
  /\ probes' = [probes EXCEPT ![i] = data]
  /\ settled' = Append(settled, i)
  /\ loadStatus' = IF data = "raise" THEN "rejected" ELSE loadStatus
  /\ UNCHANGED <<queue, dirList, loadedTracks>>

\* lines 113-114: every promise is fulfilled, this.tracks is assigned
LoadResolves ==
  /\ loadStatus = "probing"
  /\ \A i \in 1..Len(probes) : probes[i] \notin {"pending", "raise"}
  /\ loadedTracks' = promiseAll(filepaths(dirList), probes, settled)
  /\ loadStatus' = "resolved"
  /\ UNCHANGED <<queue, dirList, probes, settled>>

LoadNext ==
  \/ \E files \in DirLists : Readdir(files)
  \/ \E i \in 1..MaxFiles : \E data \in ProbeData : ProbeSettles(i, data)
  \/ LoadResolves

LoadSpec == Init /\ [][LoadNext]_vars

\* ---- properties -----------------------------------------------------------
\* the track that follows track cur in the playlist, wrapping around
Successor(cur) == tracks[(cur % Len(tracks)) + 1]

Last(sq) == sq[Len(sq)]

\* the read streams that can still deliver a chunk to broadcast()
LiveStreams ==
  {throttles[t].src : t \in {u \in ThrottleIds :
      throttles[u].used /\ (throttles[u].buf # 0 \/ throttles[u].piped)}}

\* C1: on a playlist of length len >= 1, when the pacer's events keep
\* happening, every track of the playlist is the current track again and
\* again (no track is skipped for ever).
C1_EveryTrackRevisited ==
  \A k \in 1..MaxTracks :
    []<>(crashed \/ ~loaded \/ k > Len(tracks) \/ currentTrack = k)

\* C2 as claimed: once a playlist of length len >= 1 is loaded, the stored
\* cursor satisfies 0 <= index < len.
C2_CursorBelowLength ==
  loaded /\ Len(tracks) >= 1 => index \in 0..(Len(tracks) - 1)

\* C2 amended: the stored cursor satisfies 0 <= index < len on a playlist of
\* length len >= 2, and 0 <= index <= 1 on a playlist of length 1.
C2_CursorWithinPlaylist ==
  loaded /\ Len(tracks) >= 1 =>
    index \in 0..(IF Len(tracks) = 1 THEN 1 ELSE Len(tracks) - 1)

\* C2 witness: the single track of a playlist of length 1 was replayed at
\* the end of the track, which left index = len.
C2_Witness ==
  loaded /\ ~crashed /\ Len(tracks) = 1 /\ lastOp.op = "end" /\ index = 1

\* C3: when the track at position K ends, the track at position
\* (K + 1) mod len becomes current and plays.
C3_EndOfTrackPlaysSuccessor ==
  lastOp.op = "end" => playing /\ currentTrack = Successor(lastOp.cur)

\* C4: when reading the current track K fails, the engine goes on: the track
\* at (K + 1) mod len becomes current and plays, and the client set is
\* unchanged.
C4_SourceErrorAdvances ==
  lastOp.op = "error" =>
    /\ ~crashed
    /\ playing
    /\ currentTrack = Successor(lastOp.cur)
    /\ clients = lastOp.cli

\* C5: the chunks of a track broadcast before a pause() and after the
\* resume() are the chunks of the track in order, none skipped, none
\* repeated.
C5_ResumeContinuesByteSequence ==
  \A s \in StreamIds :
    streams[s].open /\ streams[s].resumed =>
      streams[s].out = [i \in 1..Len(streams[s].out) |-> i]

\* C6: from a pause() that took effect until the next resume() or play(),
\* the engine stays paused: nothing is broadcast, and the current track and
\* the cursor do not change.
C6_PausedStaysPaused ==
  pausedAt.set =>
    /\ ~playing
    /\ currentTrack = pausedAt.cur
    /\ index = pausedAt.idx
    /\ lastOp.op \notin {"data", "writeFailed"}

\* C7: at most one session is live: at most one byte source can still
\* deliver chunks to broadcast().
C7_SingleLiveSession == Cardinality(LiveStreams) <= 1

\* C8: a sink holds only chunks broadcast after its addClient() returned.
C8_NoReplayForLateJoiner ==
  \A c \in ClientIds :
    \A i \in 1..Len(sinks[c]) : sinks[c][i] > joined[c]

\* C8 witness: a client that joined after a broadcast has received a chunk.
C8_Witness ==
  \E c \in Range(clients) : joined[c] >= 1 /\ Len(sinks[c]) >= 1

\* C9: when the write to one sink raises, the chunk is still written to every
\* other registered sink and the pipeline goes on.
C9_SinkFailureIsolated ==
  lastOp.op = "writeFailed" =>
    /\ ~crashed
    /\ \A c \in Range(lastOp.cli) \ {lastOp.id} :
         seq < MaxEmit => Len(sinks[c]) > 0 /\ Last(sinks[c]) = seq

\* C10: removeClient(id) raises nothing and removes only id, so that an
\* absent id leaves the client set as it was; the clients that stay
\* registered receive the chunks broadcast afterwards.
C10_RemoveClientTotal ==
  /\ lastOp.op = "removeClient" =>
       /\ ~crashed
       /\ clients = SelectSeq(lastOp.cli, LAMBDA c : c # lastOp.id)
  /\ lastOp.op = "data" /\ seq < MaxEmit =>
       \A c \in Range(clients) : Len(sinks[c]) > 0 /\ Last(sinks[c]) = seq

\* C10 witness: an id that is not registered was removed while another
\* client was registered.
C10_Witness ==
  /\ lastOp.op = "removeClient"
  /\ lastOp.id \notin Range(lastOp.cli)
  /\ Len(clients) >= 1

\* C11: every registered sink holds every chunk broadcast since it was
\* registered, in emission order: the chunks numbered joined + 1 .. seq.  (A
\* broadcast that a raising write() cut short is the case of C9.)
C11_SinksReceiveAllInOrder ==
  ~(crashed /\ lastOp.op = "writeFailed") =>
    \A c \in Range(clients) :
      sinks[c] = [i \in 1..(seq - joined[c]) |-> joined[c] + i]

\* C11 witness: two sinks registered at different times have both received
\* chunks, the later one fewer.
C11_Witness ==
  /\ ~crashed
  /\ \E c, d \in Range(clients) :
        /\ joined[c] < joined[d]
        /\ Len(sinks[d]) >= 1
        /\ Len(sinks[c]) > Len(sinks[d])

\* the fields of the Queue and the objects behind them that playback uses
playback == <<tracks, currentTrack, index, playing, stream, throttle,
              streams, throttles>>

\* C12: addClient() and removeClient(id) change only the client set: the
\* playlist, the cursor, the current track, the playing flag, the byte
\* source and the pacer stay as they were.
C12_ClientOpsLeavePlayback ==
  [][lastOp'.op \in {"addClient", "removeClient"} =>
       UNCHANGED <<playback, seq, crashed>>]_vars

\* C12 witness: a client was removed in the middle of a track, while a chunk
\* was held by the pacer.
C12_Witness ==
  /\ lastOp.op = "removeClient"
  /\ lastOp.id \in Range(lastOp.cli)
  /\ playing
  /\ throttles[throttle].buf # 0

\* C13: after removeClient(id) the Map does not hold id, and a sink that is
\* not registered is written by no broadcast.
C13_NoWriteAfterRemove ==
  [][/\ lastOp'.op = "removeClient" => lastOp'.id \notin Range(clients')
     /\ \A c \in ClientIds :
          c \notin Range(clients) /\ c \notin Range(clients') =>
            sinks'[c] = sinks[c]]_vars

\* C13 witness: a chunk was broadcast to a registered sink after another
\* sink, which had received chunks, was removed.
C13_Witness ==
  /\ lastOp.op = "data"
  /\ \E c \in ClientIds \ Range(clients) :
        /\ Len(sinks[c]) >= 1
        /\ Last(sinks[c]) < seq
        /\ \E d \in Range(clients) : Len(sinks[d]) >= 1 /\ Last(sinks[d]) = seq

\* C14: a probe that is rejected or gives no bitrate never makes
\* loadTracks() fail, and the track of such a file has bitrate 128000.
C14_ProbeFailureDefaults ==
  /\ loadStatus # "rejected"
  /\ loadStatus = "resolved" =>
       \A i \in 1..Len(loadedTracks) :
         probes[i] \in {"raise", "nodata"} => loadedTracks[i].bitrate = 128000

\* the positions in dirList of the names with extension ".mp3"
Mp3Positions == {i \in 1..Len(dirList) : dirList[i].ext = ".mp3"}

\* the k-th of them
Mp3Position(k) ==
  CHOOSE p \in Mp3Positions : Cardinality({r \in Mp3Positions : r < p}) = k - 1

\* C15: the playlist loadTracks() resolves to holds exactly the enumerated
\* .mp3 files, each once, in the order readdir() listed them, whatever the
\* order in which the probes ended.
C15_PlaylistInReaddirOrder ==
  loadStatus = "resolved" =>
    /\ Len(loadedTracks) = Cardinality(Mp3Positions)
    /\ \A k \in 1..Len(loadedTracks) :
         loadedTracks[k].filepath = join(Dir, dirList[Mp3Position(k)])

\* C15 witness: two .mp3 files listed after a file that is not one; the
\* probe of the second ended first.
C15_Witness ==
  /\ loadStatus = "resolved"
  /\ Len(loadedTracks) = 2
  /\ settled = <<2, 1>>
  /\ dirList[1].ext # ".mp3"

\* the read streams that are open
OpenStreams == {s \in StreamIds : streams[s].open}

\* C16: in a paused session play() does what resume() does: the Queue is
\* playing the same track from the same byte source at the position it had,
\* the cursor is unchanged and no source is opened.
C16_PlayResumesPausedSession ==
  [][started(Q) /\ ~playing /\ lastOp'.op = "play" =>
       /\ Q' = Collect(resume(Q))
       /\ playing'
       /\ currentTrack' = currentTrack /\ index' = index
       /\ stream' = stream
       /\ OpenStreams' = OpenStreams
       /\ streams'[stream].pos = streams[stream].pos]_vars

\* C16 witness: play() was called in a paused session, in the middle of a
\* track.
C16_Witness ==
  /\ lastOp.op = "play" /\ ~lastOp.pl /\ lastOp.cur # Null
  /\ playing
  /\ streams[stream].pos >= 1 /\ ~streams[stream].ended

\* C17: pause() without a session or on a session that is not playing, and
\* resume() without a session or on a session that is playing, change
\* nothing and create no pacer.
C17_IdleControlOpsChangeNothing ==
  [][\/ lastOp'.op = "pause" /\ (~started(Q) \/ ~playing)
     \/ lastOp'.op = "resume" /\ (~started(Q) \/ playing)
     => UNCHANGED playback]_vars

\* C17 witness: resume() was called on a session that was playing and whose
\* pacer held a chunk.
C17_Witness ==
  /\ lastOp.op = "resume" /\ lastOp.pl
  /\ playing
  /\ throttles[throttle].buf # 0

\* a listener of Throttle t can still call play(true): its 'end' listener is
\* attached, or a chunk is about to be written to it after its end()
CanAdvance(t) ==
  throttles[t].used /\ (throttles[t].endL \/ t \in StalePiped(Q))

\* C18: only the current pacer can advance the track: a pacer that was
\* superseded has no listener left that calls play(true).
C18_OnlyCurrentPacerAdvances ==
  \A t \in ThrottleIds : CanAdvance(t) => t = throttle

\* C19: play() on a session that is playing changes nothing: no advance, no
\* new byte source, no second pacer.
C19_PlayWhilePlayingChangesNothing ==
  [][started(Q) /\ playing /\ lastOp'.op = "play" => UNCHANGED playback]_vars

\* C19 witness: play() was called on a playing session whose pacer held a
\* chunk, and holds it still.
C19_Witness ==
  /\ lastOp.op = "play" /\ lastOp.pl
  /\ playing
  /\ throttles[throttle].buf # 0

====
